---- MODULE Spec2Model ----
(***************************************************************************)
(* Model of src/bot.py: one script run ("refresh cycle") of the coin       *)
(* analyser -- retrieval (get_market_data), the indicator engine           *)
(* (calculate_indicators), the evaluation pass with the signal scorer      *)
(* (get_signal_score) and the display.                                     *)
(*                                                                         *)
(* Numbers.  pandas/Python floats are modelled as exact rationals in       *)
(* lowest terms plus the IEEE specials the code produces: a number is a    *)
(* record [k, n, d] with k = "num" (value n/d, d > 0), "inf", "ninf" or    *)
(* "nan".  Only the square root of the rolling standard deviation is       *)
(* rounded (down, to 1/SqrtRes).                                           *)
(*                                                                         *)
(* Indices.  Sequences are 1-based: the source's 0-based index i is        *)
(* position i + 1 here.                                                    *)
(***************************************************************************)
EXTENDS Integers, Sequences, FiniteSets, TLC

VARIABLES pc, market_input, response, df, frame, args, signal, calls, display, exc

vars == <<pc, market_input, response, df, frame, args, signal, calls, display, exc>>

----------------------------------------------------------------------------
(* Bounds of the model *)

\* longest bar series the provider returns
MaxLen == 21
\* resolution of the rounded square root (StdDev is rounded down to 1/SqrtRes)
SqrtRes == 100
\* the scorer's oscillator inputs are the multiples of 1/OscDen in [0,100]
OscDen == 2

\* longest first segment of a generated series
MaxHead == 3

\* close of the oldest bar of every generated series
BasePrice == 100
\* per-bar close increments of the generated series
Slopes == {-1, 0, 1}

----------------------------------------------------------------------------
(* Float arithmetic *)

Abs(x) == IF x < 0 THEN -x ELSE x

RECURSIVE GCD(_, _)
GCD(a, b) == IF b = 0 THEN a ELSE GCD(b, a % b)

NaN == [k |-> "nan", n |-> 0, d |-> 1]
PInf == [k |-> "inf", n |-> 1, d |-> 1]
NInf == [k |-> "ninf", n |-> -1, d |-> 1]

\* the rational n/d (d # 0) in lowest terms with a positive denominator
Rat(n, d) ==
    LET s == IF d < 0 THEN -1 ELSE 1
        g == IF d = 1 THEN 1 ELSE GCD(Abs(n), Abs(d))
    IN  [k |-> "num", n |-> (s * n) \div g, d |-> (s * d) \div g]

Int2F(n) == [k |-> "num", n |-> n, d |-> 1]

IsNaN(a) == a.k = "nan"
IsNum(a) == a.k = "num"

\* sign of a non-NaN float: -1, 0, 1
Sign(a) ==
    CASE a.k = "inf" -> 1
      [] a.k = "ninf" -> -1
      [] OTHER -> IF a.n > 0 THEN 1 ELSE IF a.n < 0 THEN -1 ELSE 0

FNeg(a) ==
    CASE a.k = "nan" -> NaN
      [] a.k = "inf" -> NInf
      [] a.k = "ninf" -> PInf
      [] OTHER -> Rat(-a.n, a.d)

FAdd(a, b) ==
    CASE IsNaN(a) \/ IsNaN(b) -> NaN
      [] IsNum(a) /\ IsNum(b) -> Rat(a.n * b.d + b.n * a.d, a.d * b.d)
      [] IsNum(a) -> b
      [] IsNum(b) -> a
      [] OTHER -> IF a.k = b.k THEN a ELSE NaN

FSub(a, b) == FAdd(a, FNeg(b))

FMul(a, b) ==
    CASE IsNaN(a) \/ IsNaN(b) -> NaN
      [] IsNum(a) /\ IsNum(b) -> Rat(a.n * b.n, a.d * b.d)
      [] OTHER -> IF Sign(a) * Sign(b) = 0 THEN NaN
                  ELSE IF Sign(a) * Sign(b) > 0 THEN PInf ELSE NInf

\* mutant: a division that yields NaN for every zero divisor
FDivNoInf(a, b) ==
    CASE IsNaN(a) \/ IsNaN(b) -> NaN
      [] IsNum(a) /\ IsNum(b) -> IF b.n # 0 THEN Rat(a.n * b.d, a.d * b.n) ELSE NaN
      [] IsNum(a) -> Int2F(0)
      [] OTHER -> NaN

\* IEEE division, as pandas applies it element-wise: x/0 is +-inf, 0/0 is NaN
FDiv(a, b) ==
    CASE IsNaN(a) \/ IsNaN(b) -> NaN
      [] IsNum(a) /\ IsNum(b) ->
            IF b.n # 0 THEN Rat(a.n * b.d, a.d * b.n)
            ELSE IF a.n = 0 THEN NaN
            ELSE IF a.n > 0 THEN PInf ELSE NInf
      [] IsNum(a) -> Int2F(0)
      [] IsNum(b) -> IF Sign(a) * (IF b.n < 0 THEN -1 ELSE 1) > 0 THEN PInf ELSE NInf
      [] OTHER -> NaN

\* a < b; every comparison with NaN is false
FLt(a, b) ==
    CASE IsNaN(a) \/ IsNaN(b) -> FALSE
      [] IsNum(a) /\ IsNum(b) -> a.n * b.d < b.n * a.d
      [] a.k = "ninf" -> b.k # "ninf"
      [] a.k = "inf" -> FALSE
      [] OTHER -> b.k = "inf"

FGt(a, b) == FLt(b, a)

FGe(a, b) == ~IsNaN(a) /\ ~IsNaN(b) /\ ~FLt(a, b)

\* Python's min(a, b): the first argument unless the second is smaller
PyMin(a, b) == IF FLt(b, a) THEN b ELSE a

\* largest r with r * r <= x, by bisection on lo <= r < hi
RECURSIVE ISqrtIn(_, _, _)
ISqrtIn(x, lo, hi) ==
    IF hi - lo <= 1 THEN lo
    ELSE LET mid == (lo + hi) \div 2
         IN  IF mid * mid <= x THEN ISqrtIn(x, mid, hi) ELSE ISqrtIn(x, lo, mid)

RECURSIVE SqrtAbove(_, _)
\* a power of two h with h * h > x
SqrtAbove(x, h) == IF h * h > x THEN h ELSE SqrtAbove(x, 2 * h)

ISqrt(x) == ISqrtIn(x, 0, SqrtAbove(x, 1))

\* square root of a non-negative float, rounded down to a multiple of 1/SqrtRes
FSqrt(a) ==
    CASE IsNaN(a) -> NaN
      [] a.k = "inf" -> PInf
      [] a.k = "ninf" -> NaN
      [] OTHER -> IF a.n < 0 THEN NaN
                  ELSE Rat(ISqrt((a.n \div a.d) * SqrtRes * SqrtRes
                                 + ((a.n % a.d) * SqrtRes * SqrtRes) \div a.d), SqrtRes)

----------------------------------------------------------------------------
(* pandas helpers used by calculate_indicators *)

\* Series.where(cond, other): keep x where cond holds, else other
Where(cond, x, other) == IF cond THEN x ELSE other

\* Series.fillna(v)
FillNa(x, v) == IF IsNaN(x) THEN v ELSE x

RECURSIVE SumOver(_, _, _)
\* sum of s[lo..hi], skipping NaN entries as pandas' window aggregations do
SumOver(s, lo, hi) ==
    IF lo > hi THEN Int2F(0)
    ELSE FAdd(IF IsNaN(s[hi]) THEN Int2F(0) ELSE s[hi], SumOver(s, lo, hi - 1))

\* number of non-NaN observations among s[lo..hi]
CountObs(s, lo, hi) == Cardinality({j \in lo..hi : ~IsNaN(s[j])})

\* mutant: a rolling mean that also averages incomplete windows (min_periods = 1)
RollingMeanPartial(s, w, i) ==
    LET lo == IF i - w + 1 < 1 THEN 1 ELSE i - w + 1
    IN  IF CountObs(s, lo, i) < 1 THEN NaN
        ELSE FDiv(SumOver(s, lo, i), Int2F(CountObs(s, lo, i)))

\* Series.rolling(window=w).mean() at position i (min_periods = w)
RollingMean(s, w, i) ==
    LET lo == IF i - w + 1 < 1 THEN 1 ELSE i - w + 1
    IN  IF CountObs(s, lo, i) < w THEN NaN
        ELSE FDiv(SumOver(s, lo, i), Int2F(w))

\* Series.rolling(window=w).std() at position i: sample deviation (ddof = 1)
RollingStd(s, w, i) ==
    LET lo == IF i - w + 1 < 1 THEN 1 ELSE i - w + 1
        m  == RollingMean(s, w, i)
        sq == [j \in lo..i |-> FMul(FSub(s[j], m), FSub(s[j], m))]
    IN  IF CountObs(s, lo, i) < w THEN NaN
        ELSE FSqrt(FDiv(SumOver(sq, lo, i), Int2F(w - 1)))

----------------------------------------------------------------------------
(* The data frame *)

EmptyDF == [columns |-> {}, rows |-> <<>>]

\* DataFrame.empty
IsEmpty(d) == Len(d.rows) = 0 \/ d.columns = {}

RECURSIVE InsertByTime(_, _)
\* insert row r into the ascending sequence s, after the rows of equal time
InsertByTime(s, r) ==
    IF s = <<>> THEN <<r>>
    ELSE IF s[Len(s)].candle_date_time_kst <= r.candle_date_time_kst
         THEN Append(s, r)
         ELSE Append(InsertByTime(SubSeq(s, 1, Len(s) - 1), r), s[Len(s)])

RECURSIVE SortValues(_)
\* df.sort_values(by="candle_date_time_kst").reset_index(drop=True)
SortValues(s) ==
    IF s = <<>> THEN <<>>
    ELSE InsertByTime(SortValues(SubSeq(s, 1, Len(s) - 1)), s[Len(s)])

----------------------------------------------------------------------------
(* Indicator engine *)

period == 14
period_bb == 20

\* mutant: the ratio taken the wrong way round
RelativeStrengthSwapped(avg_gain, avg_loss) == FDiv(avg_loss, avg_gain)

\* mutant: the undefined ratio coerced to 0
RelativeStrengthFilled(avg_gain, avg_loss) == FillNa(FDiv(avg_gain, avg_loss), Int2F(0))

\* rs = avg_gain / avg_loss, element-wise
RelativeStrength(avg_gain, avg_loss) == FDiv(avg_gain, avg_loss)

\* the RSI and Bollinger columns calculate_indicators adds, one row per bar
calculate_indicators(rows) ==
    LET n        == Len(rows)
        price    == [i \in 1..n |-> Int2F(rows[i].trade_price)]
        delta    == [i \in 1..n |->
                        IF i = 1 THEN NaN ELSE FSub(price[i], price[i - 1])]
        gain     == [i \in 1..n |->
                        FillNa(Where(FGt(delta[i], Int2F(0)), delta[i], Int2F(0)),
                               Int2F(0))]
        loss     == [i \in 1..n |->
                        FillNa(FNeg(Where(FLt(delta[i], Int2F(0)), delta[i], Int2F(0))),
                               Int2F(0))]
        avg_gain == [i \in 1..n |-> RollingMean(gain, period, i)]
        avg_loss == [i \in 1..n |-> RollingMean(loss, period, i)]
        rs       == [i \in 1..n |-> RelativeStrength(avg_gain[i], avg_loss[i])]
        RSI      == [i \in 1..n |->
                        FSub(Int2F(100), FDiv(Int2F(100), FAdd(Int2F(1), rs[i])))]
        MA20     == [i \in 1..n |-> RollingMean(price, period_bb, i)]
        StdDev   == [i \in 1..n |-> RollingStd(price, period_bb, i)]
    IN  [i \in 1..n |->
            [trade_price |-> price[i],
             RSI    |-> RSI[i],
             MA20   |-> MA20[i],
             StdDev |-> StdDev[i],
             Upper  |-> FAdd(MA20[i], FMul(StdDev[i], Int2F(2))),
             Lower  |-> FSub(MA20[i], FMul(StdDev[i], Int2F(2)))]]

----------------------------------------------------------------------------
(* Signal scorer *)

\* mutant: the thresholds taken inclusively
BranchInclusive(rsi) ==
    IF ~FGt(rsi, Int2F(30)) /\ ~IsNaN(rsi) THEN "buy"
    ELSE IF ~FLt(rsi, Int2F(70)) /\ ~IsNaN(rsi) THEN "sell"
    ELSE "hold"

\* which branch of the if / elif / else the oscillator selects
Branch(rsi) ==
    IF FLt(rsi, Int2F(30)) THEN "buy"
    ELSE IF FGt(rsi, Int2F(70)) THEN "sell"
    ELSE "hold"

\* mutant: the score without its cap
TotalScoreNoCap(base_score, rsi_bonus, band_bonus) ==
    FAdd(FAdd(base_score, rsi_bonus), band_bonus)

\* total_score = min(100, base_score + rsi_bonus + band_bonus)
TotalScore(base_score, rsi_bonus, band_bonus) ==
    PyMin(Int2F(100), FAdd(FAdd(base_score, rsi_bonus), band_bonus))

\* mutant: the strong tier only above 80
IsStrongAbove(total_score) == FGt(total_score, Int2F(80))

\* if total_score >= 80
IsStrong(total_score) == FGe(total_score, Int2F(80))

\* action: "Buy" = 매수, "Sell" = 매도, "Hold" = 보류; desc and emoji name the
\* recommendation text and the emoji the code attaches
get_signal_score(rsi, price, lower, upper) ==
    IF Branch(rsi) = "buy" THEN
        LET base_score  == Int2F(50)
            rsi_bonus   == FMul(FSub(Int2F(30), rsi), Rat(5, 2))
            band_bonus  == IF FLt(price, lower) THEN Int2F(20) ELSE Int2F(0)
            total_score == TotalScore(base_score, rsi_bonus, band_bonus)
        IN  [action |-> "Buy", score |-> total_score, color |-> "green",
             emoji |-> IF IsStrong(total_score) THEN "rocket" ELSE "cart",
             desc |-> IF IsStrong(total_score) THEN "strong_buy" ELSE "buy"]
    ELSE IF Branch(rsi) = "sell" THEN
        LET base_score  == Int2F(50)
            rsi_bonus   == FMul(FSub(rsi, Int2F(70)), Rat(5, 2))
            band_bonus  == IF FGt(price, upper) THEN Int2F(20) ELSE Int2F(0)
            total_score == TotalScore(base_score, rsi_bonus, band_bonus)
        IN  [action |-> "Sell", score |-> total_score, color |-> "red",
             emoji |-> IF IsStrong(total_score) THEN "fire" ELSE "chart_down",
             desc |-> IF IsStrong(total_score) THEN "strong_sell" ELSE "sell"]
    ELSE [action |-> "Hold", score |-> Int2F(0), color |-> "gray",
          emoji |-> "neutral", desc |-> "hold"]

\* the qualitative tier carried by the recommendation text
Tier(sig) ==
    CASE sig.desc \in {"strong_buy", "strong_sell"} -> "Strong"
      [] sig.desc \in {"buy", "sell"} -> "Moderate"
      [] OTHER -> "Neutral"

----------------------------------------------------------------------------
(* Provider responses *)

Min(a, b) == IF a < b THEN a ELSE b
Max(a, b) == IF a > b THEN a ELSE b

\* closes of an n-bar series, oldest first: slope d1 for the first b1 steps,
\* d2 up to step b2, d3 afterwards
GenCloses(n, b1, b2, d1, d2, d3) ==
    [k \in 1..n |->
        BasePrice + d1 * Min(k - 1, b1)
                  + d2 * Max(0, Min(k - 1, b2) - b1)
                  + d3 * Max(0, k - 1 - b2)]

\* the candle list of a response: one row per bar, newest first when desc
Candles(closes, desc) ==
    [k \in 1..Len(closes) |->
        LET t == IF desc THEN Len(closes) + 1 - k ELSE k
        IN  [candle_date_time_kst |-> t, trade_price |-> closes[t]]]

BarColumns == {"candle_date_time_kst", "trade_price"}

\* a well-formed response: the candle list of a generated series
BarResponse(n, desc, b1, b2, d1, d2, d3) ==
    [kind |-> "list", columns |-> BarColumns,
     rows |-> Candles(GenCloses(n, b1, b2, d1, d2, d3), desc)]

\* what else requests.get(...).json() can produce: the call raises, the body
\* is not a list (the provider's error object), the list is empty, or its
\* rows lack a column
OtherResponses ==
    {[kind |-> "raise", columns |-> {}, rows |-> <<>>],
     [kind |-> "not_list", columns |-> {}, rows |-> <<>>],
     [kind |-> "list", columns |-> {}, rows |-> <<>>]}
    \cup {[kind |-> "list", columns |-> c, rows |-> Candles(<<BasePrice>>, TRUE)] :
            c \in {{}, {"candle_date_time_kst"}, {"trade_price"}}}

----------------------------------------------------------------------------
(* Retrieval *)

\* the data frame get_market_data returns for a response
get_market_data(resp) ==
    IF resp.kind = "raise" THEN EmptyDF
    ELSE IF resp.kind # "list" THEN EmptyDF
    ELSE IF "candle_date_time_kst" \notin resp.columns THEN EmptyDF
    ELSE [columns |-> resp.columns, rows |-> SortValues(resp.rows)]

----------------------------------------------------------------------------
(* One script run *)

\* what is remembered of the provider's response: its kind, the columns of
\* its rows and their number
NoResponse == [kind |-> "none", columns |-> {}, len |-> 0]

NoArgs == [rsi |-> NaN, price |-> NaN, lower |-> NaN, upper |-> NaN]
NoSignal == [action |-> "none", score |-> NaN, color |-> "none",
             emoji |-> "none", desc |-> "none"]

Init ==
    /\ pc = "idle"
    /\ market_input = TRUE
    /\ response = NoResponse
    /\ df = EmptyDF
    /\ frame = <<>>
    /\ args = NoArgs
    /\ signal = NoSignal
    /\ calls = 0
    /\ display = "none"
    /\ exc = "none"

\* lines 184-209: the controls are drawn and the market code is read
Start ==
    /\ pc = "idle"
    /\ \E mi \in BOOLEAN :
          /\ market_input' = mi
          /\ pc' = IF mi THEN "fetch" ELSE "end"
    /\ UNCHANGED <<response, df, frame, args, signal, calls, display, exc>>

\* line 211, for the response resp
Fetch(resp) ==
    /\ response' = [kind |-> resp.kind, columns |-> resp.columns,
                    len |-> Len(resp.rows)]
    /\ df' = get_market_data(resp)
    /\ pc' = "indicators"
    /\ UNCHANGED <<market_input, frame, args, signal, calls, display, exc>>

GetMarketData ==
    /\ pc = "fetch"
    /\ \/ \E resp \in OtherResponses : Fetch(resp)
       \/ \E n \in 1..MaxLen, desc \in BOOLEAN, b1 \in 0..MaxHead, d1, d2, d3 \in Slopes :
             \E b2 \in b1..Max(b1, n - 1) :
                Fetch(BarResponse(n, desc, b1, b2, d1, d2, d3))

\* line 212
CalculateIndicators ==
    /\ pc = "indicators"
    /\ IF IsEmpty(df)
       THEN /\ pc' = "evaluate"
            /\ UNCHANGED <<frame, exc>>
       ELSE IF "trade_price" \notin df.columns
       THEN /\ exc' = "KeyError"
            /\ pc' = "aborted"
            /\ UNCHANGED frame
       ELSE /\ frame' = calculate_indicators(df.rows)
            /\ pc' = "evaluate"
            /\ UNCHANGED exc
    /\ UNCHANGED <<market_input, response, df, args, signal, calls, display>>

\* lines 214-268
Evaluate ==
    /\ pc = "evaluate"
    /\ IF ~IsEmpty(df)
       THEN IF Len(frame) < 2
            THEN /\ exc' = "IndexError"
                 /\ pc' = "aborted"
                 /\ UNCHANGED <<args, signal, calls, display>>
            ELSE LET curr == frame[Len(frame)]
                     a == [rsi |-> curr.RSI, price |-> curr.trade_price,
                           lower |-> curr.Lower, upper |-> curr.Upper]
                 IN  /\ args' = a
                     /\ signal' = get_signal_score(a.rsi, a.price, a.lower, a.upper)
                     /\ calls' = calls + 1
                     /\ display' = "signal"
                     /\ pc' = "end"
                     /\ UNCHANGED exc
       ELSE /\ display' = "error"
            /\ pc' = "end"
            /\ UNCHANGED <<args, signal, calls, exc>>
    /\ UNCHANGED <<market_input, response, df, frame>>

\* the script is run again from the top (a widget event, or lines 270-272
\* when the run reached them); nothing but the session's market code survives
Rerun ==
    /\ pc \in {"end", "aborted"}
    /\ pc' = "idle"
    /\ market_input' = TRUE
    /\ response' = NoResponse
    /\ df' = EmptyDF
    /\ frame' = <<>>
    /\ args' = NoArgs
    /\ signal' = NoSignal
    /\ calls' = 0
    /\ display' = "none"
    /\ exc' = "none"

Next == Start \/ GetMarketData \/ CalculateIndicators \/ Evaluate \/ Rerun

Spec == Init /\ [][Next]_vars

----------------------------------------------------------------------------
(* The scorer on arbitrary inputs *)

\* oscillator inputs: undefined, or a multiple of 1/OscDen in [0,100]
ScoreOscillators == {NaN} \cup {Rat(k, OscDen) : k \in 0..(100 * OscDen)}
ScorePrices == {Int2F(90), Int2F(100), Int2F(120)}
ScoreLowers == {NaN, Int2F(95)}
ScoreUppers == {NaN, Int2F(110)}

InitScore ==
    /\ pc = "score_call"
    /\ market_input = TRUE
    /\ response = NoResponse
    /\ df = EmptyDF
    /\ frame = <<>>
    /\ args \in [rsi : ScoreOscillators, price : ScorePrices,
                 lower : ScoreLowers, upper : ScoreUppers]
    /\ signal = NoSignal
    /\ calls = 0
    /\ display = "none"
    /\ exc = "none"

ScoreCall ==
    /\ pc = "score_call"
    /\ signal' = get_signal_score(args.rsi, args.price, args.lower, args.upper)
    /\ calls' = calls + 1
    /\ pc' = "score_ret"
    /\ UNCHANGED <<market_input, response, df, frame, args, display, exc>>

NextScore == ScoreCall

SpecScore == InitScore /\ [][NextScore]_vars

----------------------------------------------------------------------------
(* Properties *)

\* the indicator frame has been computed in this run
Computed == frame # <<>>

\* close of the bar at position i of the retrieved series
Close(i) == df.rows[i].trade_price

\* the scorer has been called (in a run, or on arbitrary inputs)
Scored == calls > 0

Undefined(x) == IsNaN(x)

\* a < b and a <= b for two defined numbers, by cross-multiplication
Less(a, b) == a.n * b.d < b.n * a.d
LessEq(a, b) == a.n * b.d <= b.n * a.d

\* C1: whenever the scorer is called with an undefined oscillator, lower band
\* or upper band, it returns Hold with magnitude 0.
C1_UndefinedInputsGiveHold ==
    (Scored /\ (Undefined(args.rsi) \/ Undefined(args.lower) \/ Undefined(args.upper)))
        => (signal.action = "Hold" /\ signal.score = Int2F(0))

\* twice the oscillator's denominator times the uncapped magnitude of the
\* reference rule, for the distance dist = 30 - oscillator or oscillator - 70
\* (as a numerator over the oscillator's denominator) and the band bonus
RefRaw(dist, den, breach) == 100 * den + 5 * dist + (IF breach THEN 40 * den ELSE 0)

\* the magnitude sc is min(100, raw / (2 * den))
RefMagnitude(sc, raw, den) ==
    /\ IsNum(sc)
    /\ IF raw > 200 * den THEN sc = Int2F(100) ELSE sc.n * 2 * den = raw * sc.d

RefTier(sig) ==
    Tier(sig) = IF LessEq(Int2F(80), sig.score) THEN "Strong" ELSE "Moderate"

\* C2: on defined inputs the scorer agrees with the reference rule: below 30
\* Buy with min(100, 50 + (30 - oscillator) * 2.5 + 20 if price < lower), above
\* 70 Sell with min(100, 50 + (oscillator - 70) * 2.5 + 20 if price > upper),
\* and in both the tier is Strong exactly when the magnitude is at least 80.
C2_ReferenceRule ==
    (Scored /\ ~Undefined(args.rsi) /\ ~Undefined(args.lower) /\ ~Undefined(args.upper))
        => LET r == args.rsi
           IN  /\ Less(r, Int2F(30)) =>
                    /\ signal.action = "Buy"
                    /\ RefMagnitude(signal.score,
                                    RefRaw(30 * r.d - r.n, r.d, Less(args.price, args.lower)),
                                    r.d)
                    /\ RefTier(signal)
               /\ Less(Int2F(70), r) =>
                    /\ signal.action = "Sell"
                    /\ RefMagnitude(signal.score,
                                    RefRaw(r.n - 70 * r.d, r.d, Less(args.upper, args.price)),
                                    r.d)
                    /\ RefTier(signal)

\* Scenario B: oscillator 25, price 100, lower 95 gives Buy / 62.5 / Moderate
C2_Witness ==
    /\ Scored
    /\ args = [rsi |-> Int2F(25), price |-> Int2F(100),
               lower |-> Int2F(95), upper |-> Int2F(110)]
    /\ signal.action = "Buy"
    /\ signal.score = Rat(125, 2)
    /\ Tier(signal) = "Moderate"

\* C3: for 30 <= oscillator <= 70 the scorer returns Hold, magnitude 0, tier
\* Neutral, whatever the price and the bands are.
C3_NeutralHolds ==
    (Scored /\ ~Undefined(args.rsi)
            /\ LessEq(Int2F(30), args.rsi) /\ LessEq(args.rsi, Int2F(70)))
        => (signal.action = "Hold" /\ signal.score = Int2F(0) /\ Tier(signal) = "Neutral")

\* Scenario C: a price above the upper band with a neutral oscillator
C3_Witness ==
    /\ Scored
    /\ args = [rsi |-> Int2F(50), price |-> Int2F(120),
               lower |-> Int2F(95), upper |-> Int2F(110)]
    /\ signal.action = "Hold"

\* C4: for an oscillator in [0,100] the action is Buy exactly below 30, Sell
\* exactly above 70 and Hold exactly in [30,70], and the magnitude lies in
\* [0,100].
C4_Totality ==
    (Scored /\ ~Undefined(args.rsi)
            /\ LessEq(Int2F(0), args.rsi) /\ LessEq(args.rsi, Int2F(100)))
        => /\ signal.action \in {"Buy", "Sell", "Hold"}
           /\ (signal.action = "Buy") <=> Less(args.rsi, Int2F(30))
           /\ (signal.action = "Sell") <=> Less(Int2F(70), args.rsi)
           /\ (signal.action = "Hold") <=>
                 (LessEq(Int2F(30), args.rsi) /\ LessEq(args.rsi, Int2F(70)))
           /\ IsNum(signal.score)
           /\ LessEq(Int2F(0), signal.score)
           /\ LessEq(signal.score, Int2F(100))

\* Scenario A: the magnitude 50 + 50 + 20 is capped at 100
C4_Witness ==
    /\ Scored
    /\ args.rsi = Int2F(10) /\ args.price = Int2F(90) /\ args.lower = Int2F(95)
    /\ signal.action = "Buy"
    /\ signal.score = Int2F(100)

\* closes strictly decreasing (increasing) over the positions lo..hi
StrictlyDecreasing(lo, hi) == \A j \in (lo + 1)..hi : Close(j) < Close(j - 1)
StrictlyIncreasing(lo, hi) == \A j \in (lo + 1)..hi : Close(j) > Close(j - 1)

\* C5: strictly decreasing closes over the trailing 14 bars ending at index
\* i >= 13 give oscillator[i] = 0, whatever the close at index i - 14 is.
C5_DecreasingGivesZero ==
    Computed =>
        \A i \in period..Len(frame) :
            StrictlyDecreasing(i - period + 1, i) => frame[i].RSI = Int2F(0)

\* C5 (amended): strictly decreasing closes over the trailing 14 bars ending at
\* index i >= 13 give oscillator[i] = 0, provided i = 13 or the close at index
\* i - 14 is not below the close at index i - 13.
C5_DecreasingGivesZeroAmended ==
    Computed =>
        \A i \in period..Len(frame) :
            (/\ StrictlyDecreasing(i - period + 1, i)
             /\ (i = period \/ Close(i - period) >= Close(i - period + 1)))
                => frame[i].RSI = Int2F(0)

C5_Witness ==
    /\ Computed
    /\ \E i \in (period + 1)..Len(frame) :
          /\ StrictlyDecreasing(i - period + 1, i)
          /\ Close(i - period) = Close(i - period + 1)
          /\ frame[i].RSI = Int2F(0)

\* C6: strictly increasing closes over the trailing 14 bars ending at index
\* i >= 13 give oscillator[i] = 100, whatever the close at index i - 14 is.
C6_IncreasingGivesHundred ==
    Computed =>
        \A i \in period..Len(frame) :
            StrictlyIncreasing(i - period + 1, i) => frame[i].RSI = Int2F(100)

\* C6 (amended): strictly increasing closes over the trailing 14 bars ending at
\* index i >= 13 give oscillator[i] = 100, provided i = 13 or the close at index
\* i - 14 is not above the close at index i - 13; in particular the 14-bar
\* series 100, 101, ..., 113 gives 100 at its final index.
C6_IncreasingGivesHundredAmended ==
    Computed =>
        \A i \in period..Len(frame) :
            (/\ StrictlyIncreasing(i - period + 1, i)
             /\ (i = period \/ Close(i - period) <= Close(i - period + 1)))
                => frame[i].RSI = Int2F(100)

\* Scenario D: the series 100, 101, ..., 113
C6_Witness ==
    /\ Computed
    /\ Len(frame) = period
    /\ \A k \in 1..period : Close(k) = 99 + k
    /\ frame[period].RSI = Int2F(100)

\* C7: the frame has one entry per bar; the oscillator is undefined at every
\* index below 13 and the envelope at every index below 19, while the
\* envelope is computed at every index from 19 on.
C7_WarmUpUndefined ==
    Computed =>
        /\ Len(frame) = Len(df.rows)
        /\ \A i \in 1..Len(frame) :
              /\ i < period => Undefined(frame[i].RSI)
              /\ i < period_bb =>
                    /\ Undefined(frame[i].MA20)
                    /\ Undefined(frame[i].Upper)
                    /\ Undefined(frame[i].Lower)
              /\ i >= period_bb =>
                    /\ IsNum(frame[i].MA20)
                    /\ IsNum(frame[i].Upper)
                    /\ IsNum(frame[i].Lower)

C7_Witness ==
    /\ Computed
    /\ Len(frame) >= period_bb
    /\ Undefined(frame[period - 1].RSI) /\ IsNum(frame[period].RSI)
    /\ Undefined(frame[period_bb - 1].Upper) /\ IsNum(frame[period_bb].Upper)

\* no close changes over the 14 deltas ending at position i (the first bar
\* has no delta): the mean gain and the mean loss of the window are both zero
BothMeansZero(i) ==
    \A j \in (i - period + 1)..i : j >= 2 => Close(j) = Close(j - 1)

\* C8: at every index i >= 13 the oscillator is undefined exactly when the
\* mean gain and the mean loss of its window are both zero; every other such
\* index has a value in [0,100].
C8_UndefinedOnlyAtZeroMeans ==
    Computed =>
        \A i \in period..Len(frame) :
            /\ Undefined(frame[i].RSI) <=> BothMeansZero(i)
            /\ ~BothMeansZero(i) =>
                  /\ IsNum(frame[i].RSI)
                  /\ LessEq(Int2F(0), frame[i].RSI)
                  /\ LessEq(frame[i].RSI, Int2F(100))

\* a defined index after an undefined one, and an undefined one after a defined one
C8_Witness ==
    /\ Computed
    /\ \E i, j, k \in period..Len(frame) :
          /\ i < j /\ j < k
          /\ IsNum(frame[i].RSI)
          /\ Undefined(frame[j].RSI)
          /\ IsNum(frame[k].RSI)

\* the run is over: it reached its end or was aborted by an exception
RunOver == pc \in {"end", "aborted"}

\* C9: a run whose retrieval delivered a non-empty bar series calls the
\* scorer exactly once, on the last bar's values, and displays a signal; it
\* is not aborted.
C9_ScorerCalledOnce ==
    (RunOver /\ market_input /\ response.kind = "list"
             /\ response.columns = BarColumns /\ response.len >= 1)
        => /\ exc = "none"
           /\ calls = 1
           /\ display = "signal"
           /\ LET curr == frame[Len(frame)]
              IN  args = [rsi |-> curr.RSI, price |-> Int2F(Close(Len(df.rows))),
                          lower |-> curr.Lower, upper |-> curr.Upper]

\* retrieval failed: the request raised, the body is not a list, or the list
\* is empty or its rows are not bars
RetrievalFailed ==
    \/ response.kind \in {"raise", "not_list"}
    \/ response.kind = "list" /\ (response.len = 0 \/ response.columns # BarColumns)

\* C10: a run whose retrieval failed works on an empty series: nothing is
\* computed, the scorer is not called, the error message is shown and no
\* exception aborts the run.
C10_FailedRetrievalShowsError ==
    (RunOver /\ market_input /\ RetrievalFailed)
        => /\ IsEmpty(df)
           /\ frame = <<>>
           /\ calls = 0
           /\ display = "error"
           /\ exc = "none"

====
